---- MODULE Spec2Model ----
(***************************************************************************)
(* A model of the board-metadata delta and of the cached metadata read    *)
(* (server/boards/utils.ts) and of the post edit handler                   *)
(* (router.post("/:postId/edit")).                                         *)
(*                                                                         *)
(* JavaScript values are modelled as follows:                              *)
(*   - an object is a TLA+ record; a key the object does not have is a     *)
(*     field outside the record's DOMAIN;                                  *)
(*   - an array is a sequence;                                             *)
(*   - a category string is the sequence of its characters, so that        *)
(*     toLowerCase is computed character by character;                     *)
(*   - undefined and null are the atoms Undefined and Null, distinct from  *)
(*     every string the model uses.                                        *)
(***************************************************************************)
EXTENDS Integers, Sequences, FiniteSets, TLC

VARIABLES
    oldMetadata,   \* getMetadataDelta's argument oldMetadata
    newMetadata,   \* getMetadataDelta's argument newMetadata
    delta,         \* outcome of the call: not called yet, a returned delta, or a TypeError
    storedPost,    \* the post's row in storage, or its absence
    pc,            \* per edit request: where the handler stands
    currentUser,   \* per edit request: req.currentUser is set
    body,          \* per edit request: the tags of req.body
    permissions,   \* per edit request: what getUserPermissionsForPost resolves to
    postDetails,   \* per edit request: what getPostFromStringId resolved to
    tagsDelta,     \* per edit request: the handler's tagsDelta
    response,      \* per edit request: the status sent, 0 while none is sent
    threw,         \* per edit request: the handler ended by an uncaught exception
    updateCalls,   \* per edit request: invocations of updatePostTags
    cacheStore,    \* the hash CacheKeys.BOARD_METADATA: per board id, an entry or a miss
    boardRow,      \* per board id: the board in storage, or its absence
    calls          \* per call of getBoardMetadataByExternalId: arguments, locals, result

boardVars == <<cacheStore, boardRow, calls>>
deltaVars == <<oldMetadata, newMetadata, delta>>
editVars == <<storedPost, pc, currentUser, body, permissions, postDetails,
              tagsDelta, response, threw, updateCalls>>
vars == <<deltaVars, editVars, boardVars>>

\* Longest descriptions array of an input.
MaxDescs == 2
\* Longest categories array of a category-filter section.
MaxCats == 2

Undefined == "undefined"
Null == "null"

(***************************************************************************)
(* Generic helpers for objects and arrays.                                 *)
(***************************************************************************)
Range(s) == {s[i] : i \in DOMAIN s}

SeqsUpTo(S, n) == UNION {[1..k -> S] : k \in 0..n}

\* The object {k: v}.
Obj(k, v) == [x \in {k} |-> v]

\* Object spread {...f, ...g}: g's keys win.
Spread(f, g) ==
    [x \in (DOMAIN f) \cup (DOMAIN g) |-> IF x \in DOMAIN g THEN g[x] ELSE f[x]]

\* obj.k where the key may be missing: reading a missing key gives undefined.
Get(obj, k) == IF k \in DOMAIN obj THEN obj[k] ELSE Undefined

\* items.map((item) => ({id: item.id}))
projectToId(items) == [i \in DOMAIN items |-> [id |-> items[i].id]]

(***************************************************************************)
(* Strings of categories, character by character.                          *)
(***************************************************************************)
UpperToLower ==
    [c \in {"B", "O", "D", "L"} |->
        CASE c = "B" -> "b" [] c = "O" -> "o" [] c = "D" -> "d" [] c = "L" -> "l"]

toLowerCaseChar(c) == IF c \in DOMAIN UpperToLower THEN UpperToLower[c] ELSE c

\* String.prototype.toLowerCase
toLowerCase(str) == [i \in DOMAIN str |-> toLowerCaseChar(str[i])]

CatBlood == <<"B", "l", "o", "o", "d">>
CatBloodLower == <<"b", "l", "o", "o", "d">>
CatOdd == <<"o", "d", "d">>

Categories == {CatBlood, CatBloodLower, CatOdd}

(***************************************************************************)
(* getMetadataDelta                                                        *)
(***************************************************************************)

\* oldCategory.toLowerCase() == newCategory.toLowerCase(), compared one-sided only.
sameCategoryOneSided(oldCategory, newCategory) ==
    toLowerCase(oldCategory) = newCategory

\* oldCategory == newCategory, without toLowerCase.
sameCategoryCaseSensitive(oldCategory, newCategory) ==
    oldCategory = newCategory

\* oldCategory.toLowerCase() == newCategory.toLowerCase()
sameCategory(oldCategory, newCategory) ==
    toLowerCase(oldCategory) = toLowerCase(newCategory)

\* metadata.descriptions?.filter((desc) => desc.type == type) || []
descriptionsOfType(metadata, type) ==
    IF "descriptions" \in DOMAIN metadata
    THEN SelectSeq(metadata.descriptions, LAMBDA desc : desc.type = type)
    ELSE <<>>

\* items.some((item) => item.id == id)
hasId(items, id) == \E i \in DOMAIN items : items[i].id = id

\* Mutation: old and new are swapped in the filter.
deletedTextsSwapped(oldTexts, newTexts) ==
    SelectSeq(newTexts, LAMBDA newText : ~hasId(oldTexts, newText.id))

\* oldTexts.filter((oldText) => !newTexts.some((newText) => newText.id == oldText.id))
deletedTexts(oldTexts, newTexts) ==
    SelectSeq(oldTexts, LAMBDA oldText : ~hasId(newTexts, oldText.id))

\* Mutation: the negation of the membership test is dropped.
deletedFiltersKept(oldCategoryFilters, newCategoryFilters) ==
    SelectSeq(oldCategoryFilters,
              LAMBDA oldFilter : hasId(newCategoryFilters, oldFilter.id))

\* oldCategoryFilters.filter((oldFilter) =>
\*     !newCategoryFilters.some((newFilter) => newFilter.id == oldFilter.id))
deletedFilters(oldCategoryFilters, newCategoryFilters) ==
    SelectSeq(oldCategoryFilters,
              LAMBDA oldFilter : ~hasId(newCategoryFilters, oldFilter.id))

\* newTexts.map((text) => ({...text, updated: oldTexts.some((o) => o.id === text.id)}))
newAndUpdatedTexts(oldTexts, newTexts) ==
    [i \in DOMAIN newTexts |->
        Spread(newTexts[i], Obj("updated", hasId(oldTexts, newTexts[i].id)))]

\* Index of oldCategoryFilters.find((oldFilter) => oldFilter.id == id): the first
\* match, 0 when find returns undefined.
findIndexById(items, id) ==
    IF hasId(items, id)
    THEN CHOOSE i \in DOMAIN items :
            /\ items[i].id = id
            /\ \A j \in 1..(i - 1) : items[j].id # id
    ELSE 0

\* deletedCategories, given that oldFilter was found.
deletedCategories(oldFilter, newFilter) ==
    SelectSeq(oldFilter.categories,
              LAMBDA oldCategory :
                  ~\E k \in DOMAIN newFilter.categories :
                        sameCategory(oldCategory, newFilter.categories[k]))

\* newCategories, given that oldFilter was found.
newCategories(oldFilter, newFilter) ==
    SelectSeq(newFilter.categories,
              LAMBDA newCategory :
                  ~\E k \in DOMAIN oldFilter.categories :
                        sameCategory(oldFilter.categories[k], newCategory))

\* Mutation: a filter with no old counterpart is still flagged as updated.
filterDeltaAlwaysUpdated(oldCategoryFilters, newFilter) ==
    LET found == findIndexById(oldCategoryFilters, newFilter.id)
        nested ==
            IF found # 0
            THEN [deleted |-> deletedCategories(oldCategoryFilters[found], newFilter),
                  new |-> newCategories(oldCategoryFilters[found], newFilter)]
            ELSE [deleted |-> <<>>, new |-> newFilter.categories]
    IN  Spread(newFilter, Spread(Obj("categories", nested), Obj("updated", TRUE)))

\* The body of newCategoryFilters.map((newFilter) => ...).
filterDelta(oldCategoryFilters, newFilter) ==
    LET found == findIndexById(oldCategoryFilters, newFilter.id)
        nested ==
            IF found # 0
            THEN [deleted |-> deletedCategories(oldCategoryFilters[found], newFilter),
                  new |-> newCategories(oldCategoryFilters[found], newFilter)]
            ELSE [deleted |-> <<>>, new |-> newFilter.categories]
    IN  Spread(newFilter,
               Spread(Obj("categories", nested), Obj("updated", found # 0)))

newAndUpdatedFilters(oldCategoryFilters, newCategoryFilters) ==
    [i \in DOMAIN newCategoryFilters |->
        filterDelta(oldCategoryFilters, newCategoryFilters[i])]

\* JavaScript's loose inequality a != b on strings, null and undefined.
LooseNotEqual(a, b) ==
    IF a \in {Undefined, Null} /\ b \in {Undefined, Null} THEN FALSE ELSE a # b

\* Mutation: the comparison is dropped and the new value is always emitted.
scalarDeltaAlways(oldValue, newValue) == newValue

\* oldValue != newValue ? newValue : undefined
scalarDelta(oldValue, newValue) ==
    IF LooseNotEqual(oldValue, newValue) THEN newValue ELSE Undefined

\* Whether evaluating metadata.settings!.accentColor throws: the non-null
\* assertion is erased at compile time, so a missing settings object is a
\* property read on undefined.
settingsReadThrows(metadata) == "settings" \notin DOMAIN metadata

getMetadataDelta(old, new) ==
    LET oldTexts == descriptionsOfType(old, "text")
        oldCategoryFilters == descriptionsOfType(old, "category_filter")
        newTexts == descriptionsOfType(new, "text")
        newCategoryFilters == descriptionsOfType(new, "category_filter")
    IN  IF settingsReadThrows(old) \/ settingsReadThrows(new)
        THEN [kind |-> "TypeError"]
        ELSE [kind |-> "returned",
              value |->
                [accentColor |-> scalarDelta(Get(old.settings, "accentColor"),
                                             Get(new.settings, "accentColor")),
                 tagline |-> scalarDelta(Get(old, "tagline"), Get(new, "tagline")),
                 texts |->
                    [deleted |-> projectToId(deletedTexts(oldTexts, newTexts)),
                     newAndUpdated |-> newAndUpdatedTexts(oldTexts, newTexts)],
                 categoryFilters |->
                    [deleted |-> projectToId(deletedFilters(oldCategoryFilters,
                                                            newCategoryFilters)),
                     newAndUpdated |->
                        newAndUpdatedFilters(oldCategoryFilters, newCategoryFilters)]]]

(***************************************************************************)
(* Inputs of getMetadataDelta.  Both arguments are Partial<BoardByExternalId>: *)
(* any of descriptions, settings and tagline may be missing.               *)
(***************************************************************************)
SectionIds == {"s1", "s2"}

CategoryLists == SeqsUpTo(Categories, MaxCats)

TextSection(id) == [id |-> id, type |-> "text", description |-> "pls b nice"]

CategoryFilterSection(id, categories) ==
    [id |-> id, type |-> "category_filter", categories |-> categories]

\* A description whose discriminant is neither "text" nor "category_filter".
OtherSection(id) == [id |-> id, type |-> "other"]

AccentColors == {"#ff5252", "#f96680"}
Taglines == {"Blood! Blood! Blood!", "pls b nice"}

\* The settings object with its accentColor.
DefaultSettings == Obj("settings", [accentColor |-> "#ff5252"])

\* Descriptions arrays that mix the kinds of section.  oldMetadata is the stored
\* state of the board, newMetadata comes from the request.
MixedSections ==
    {TextSection(id) : id \in SectionIds}
        \cup {CategoryFilterSection(id, categories) :
                id \in SectionIds, categories \in {<<CatOdd>>, <<CatBlood>>}}
        \cup {OtherSection("s1")}

MixedMetadata ==
    {Spread(DefaultSettings, Obj("descriptions", descs)) :
        descs \in SeqsUpTo(MixedSections, MaxDescs)}
        \cup {DefaultSettings}

\* The sections of a stored board are rows keyed by their id: no two share one.
DistinctIds(descs) ==
    \A i, j \in DOMAIN descs : descs[i].id = descs[j].id => i = j

StoredMixedMetadata ==
    {m \in MixedMetadata : "descriptions" \in DOMAIN m => DistinctIds(m.descriptions)}

\* At most one category filter, with every categories array up to MaxCats.
FilterMetadata ==
    {Spread(DefaultSettings,
            Obj("descriptions", <<CategoryFilterSection(id, categories)>>)) :
        id \in SectionIds, categories \in CategoryLists}

\* The scalar fields, each present or missing, with and without descriptions.
OptionalField(k, values) == {Obj(k, v) : v \in values} \cup {<<>>}

ScalarMetadata ==
    {Spread(Spread(settings, tagline), descriptions) :
        settings \in OptionalField("settings",
                        {[accentColor |-> c] : c \in AccentColors \cup {Undefined}}),
        tagline \in OptionalField("tagline", Taglines \cup {Null}),
        descriptions \in OptionalField("descriptions", {<<>>})}

MetadataPairs ==
    (StoredMixedMetadata \X MixedMetadata)
        \cup ((FilterMetadata \cup {DefaultSettings}) \X FilterMetadata)
        \cup (ScalarMetadata \X ScalarMetadata)

NotCalled == [kind |-> "notCalled"]

(***************************************************************************)
(* getBoardMetadataByExternalId and the cache of rendered board metadata.  *)
(***************************************************************************)
BoardIds == {"gore"}
Calls == {"c1", "c2"}

\* firebaseId is optional: missing, or a string, the empty string included.
FirebaseIds == {Undefined, "", "fb2"}

\* !firebaseId
isFalsy(firebaseId) == firebaseId \in {Undefined, ""}

NoBoard == [kind |-> "missing"]
BoardRows == {NoBoard} \cup {[kind |-> "board", tagline |-> t] : t \in Taglines}

\* processBoardsSummary({boards: [board], isLoggedIn, hasRealmMemberAccess})[0]:
\* the fields of a summary; muted is a field of the logged-in summary only.
processBoardsSummary(boardExternalId, board, isLoggedIn, hasRealmMemberAccess) ==
    [id |-> boardExternalId,
     tagline |-> board.tagline,
     muted |-> IF isLoggedIn THEN "false" ELSE Undefined]

\* processBoardMetadata({metadata: board, isLoggedIn, hasBoardAccess})
processBoardMetadata(board, isLoggedIn, hasBoardAccess) ==
    [accessible |-> IF hasBoardAccess THEN "true" ELSE "false"]

\* const finalMetadata = {...boardSummary[0], ...boardMetadata}
finalMetadataOf(boardExternalId, board, firebaseId, hasBoardAccess) ==
    Spread(processBoardsSummary(boardExternalId, board, ~isFalsy(firebaseId),
                                hasBoardAccess),
           processBoardMetadata(board, ~isFalsy(firebaseId), hasBoardAccess))

\* The keys of a rendered metadata in the order stable stringify writes them.
SortedKeys == <<"accessible", "id", "muted", "tagline">>

\* stringify(finalMetadata): the key/value pairs in sorted key order; a key
\* whose value is undefined is not written.
stringify(obj) ==
    LET written == SelectSeq(SortedKeys,
                        LAMBDA k : k \in DOMAIN obj /\ obj[k] # Undefined)
    IN  [i \in DOMAIN written |-> <<written[i], obj[written[i]]>>]

\* JSON.parse(cachedBoard)
JSONparse(json) ==
    [k \in {json[i][1] : i \in DOMAIN json} |->
        json[CHOOSE i \in DOMAIN json : json[i][1] = k][2]]

CacheMiss == [kind |-> "miss"]
CacheHit(json) == [kind |-> "hit", json |-> json]

\* What the cache may hold for a board: nothing, or any metadata rendered
\* earlier, for any row and any caller.
CacheEntries ==
    {CacheMiss} \cup
    {CacheHit(stringify(finalMetadataOf(b, row, f, access))) :
        b \in BoardIds, row \in BoardRows \ {NoBoard},
        f \in FirebaseIds, access \in BOOLEAN}

NoResult == [kind |-> "none"]

NewCall(b, firebaseId, hasBoardAccess) ==
    [pc |-> "start",
     boardExternalId |-> b,
     firebaseId |-> firebaseId,
     hasBoardAccess |-> hasBoardAccess,
     cachedBoard |-> CacheMiss,
     board |-> NoBoard,
     result |-> NoResult,
     cacheReads |-> 0,
     cacheWrites |-> 0]

UnusedCall == [NewCall("gore", Undefined, FALSE) EXCEPT !.pc = "unused"]

IdleBoard ==
    /\ cacheStore = [b \in BoardIds |-> CacheMiss]
    /\ boardRow = [b \in BoardIds |-> NoBoard]
    /\ calls = [c \in Calls |-> UnusedCall]

\* Mutation: the cache is queried whether or not the caller has a firebaseId.
BoardStartAlwaysReadsCache(c) ==
    /\ calls[c].pc = "start"
    /\ calls' = [calls EXCEPT ![c].pc = "awaitCache", ![c].cacheReads = @ + 1]
    /\ UNCHANGED <<cacheStore, boardRow, deltaVars, editVars>>

\* The function up to its first await: cache().hGet for a caller without
\* firebaseId, getBoardByExternalId otherwise.
BoardStart(c) ==
    /\ calls[c].pc = "start"
    /\ IF isFalsy(calls[c].firebaseId)
       THEN calls' = [calls EXCEPT ![c].pc = "awaitCache", ![c].cacheReads = @ + 1]
       ELSE calls' = [calls EXCEPT ![c].pc = "awaitBoard"]
    /\ UNCHANGED <<cacheStore, boardRow, deltaVars, editVars>>

\* hGet resolves: a hit is parsed and returned, a miss goes on to storage.
BoardGotCached(c) ==
    /\ calls[c].pc = "awaitCache"
    /\ LET cachedBoard == cacheStore[calls[c].boardExternalId]
       IN  IF cachedBoard.kind = "hit"
           THEN calls' = [calls EXCEPT
                            ![c].cachedBoard = cachedBoard,
                            ![c].result = [kind |-> "metadata",
                                           value |-> JSONparse(cachedBoard.json)],
                            ![c].pc = "done"]
           ELSE calls' = [calls EXCEPT
                            ![c].cachedBoard = cachedBoard,
                            ![c].pc = "awaitBoard"]
    /\ UNCHANGED <<cacheStore, boardRow, deltaVars, editVars>>

\* getBoardByExternalId resolves: null for no board; else the metadata is
\* rendered, written to the cache for a caller without firebaseId, and returned.
BoardGotBoard(c) ==
    /\ calls[c].pc = "awaitBoard"
    /\ LET b == calls[c].boardExternalId
           board == boardRow[b]
           finalMetadata ==
               finalMetadataOf(b, board, calls[c].firebaseId, calls[c].hasBoardAccess)
       IN  IF board.kind = "missing"
           THEN /\ calls' = [calls EXCEPT ![c].board = board,
                                          ![c].result = [kind |-> "null"],
                                          ![c].pc = "done"]
                /\ UNCHANGED cacheStore
           ELSE IF isFalsy(calls[c].firebaseId)
           THEN /\ cacheStore' = [cacheStore EXCEPT
                                    ![b] = CacheHit(stringify(finalMetadata))]
                /\ calls' = [calls EXCEPT
                                ![c].board = board,
                                ![c].cacheWrites = @ + 1,
                                ![c].result = [kind |-> "metadata",
                                               value |-> finalMetadata],
                                ![c].pc = "done"]
           ELSE /\ calls' = [calls EXCEPT
                                ![c].board = board,
                                ![c].result = [kind |-> "metadata",
                                               value |-> finalMetadata],
                                ![c].pc = "done"]
                /\ UNCHANGED cacheStore
    /\ UNCHANGED <<boardRow, deltaVars, editVars>>

(***************************************************************************)
(* The post edit handler, router.post("/:postId/edit").                    *)
(***************************************************************************)
Requests == {"r1", "r2"}

Unauthorized == 401
InternalServerError == 500
EditSuccess == 220

TagFields == {"whisperTags", "indexTags", "categoryTags", "contentWarnings"}
Tags == {"a"}
TagSets == [TagFields -> SUBSET Tags]

IdleRequests ==
    /\ pc = [r \in Requests |-> "unused"]
    /\ currentUser = [r \in Requests |-> FALSE]
    /\ body = [r \in Requests |-> [f \in TagFields |-> {}]]
    /\ permissions = [r \in Requests |-> [kind |-> "null"]]
    /\ postDetails = [r \in Requests |-> [kind |-> "unfetched"]]
    /\ tagsDelta = [r \in Requests |-> [kind |-> "none"]]
    /\ response = [r \in Requests |-> 0]
    /\ threw = [r \in Requests |-> FALSE]
    /\ updateCalls = [r \in Requests |-> 0]

\* The permissions a caller may hold: one per tag field, and one for all.
PermissionFor ==
    [f \in TagFields |->
        CASE f = "whisperTags" -> "edit:whisperTags"
          [] f = "indexTags" -> "edit:indexTags"
          [] f = "categoryTags" -> "edit:categoryTags"
          [] f = "contentWarnings" -> "edit:contentWarnings"]

WildcardPermission == "edit:*"

Permissions == {PermissionFor[f] : f \in TagFields} \cup {WildcardPermission}

\* What getUserPermissionsForPost may resolve to: null, or a list of permissions.
PermissionResults ==
    {[kind |-> "null"]} \cup {[kind |-> "list", items |-> ps] : ps \in SUBSET Permissions}

\* A row of posts, with the columns the handler reads.
PostRow(tags) ==
    [kind |-> "post",
     content_warnings |-> tags.contentWarnings,
     index_tags |-> tags.indexTags,
     category_tags |-> tags.categoryTags,
     whisper_tags |-> tags.whisperTags]

NoPost == [kind |-> "missing"]

StoredPosts == {NoPost} \cup {PostRow(tags) : tags \in TagSets}

\* getPostFromStringId: the stored row, or nothing when there is none.
getPostFromStringId == storedPost

\* const postTags = {contentWarnings: postDetails.content_warnings, ...}
postTagsOf(details) ==
    [contentWarnings |-> details.content_warnings,
     indexTags |-> details.index_tags,
     categoryTags |-> details.category_tags,
     whisperTags |-> details.whisper_tags]

\* getTagsDelta: per tag field, the tags added and the tags removed.
getTagsDelta(oldTags, newTags) ==
    [kind |-> "delta",
     added |-> [f \in TagFields |-> newTags[f] \ oldTags[f]],
     removed |-> [f \in TagFields |-> oldTags[f] \ newTags[f]]]

\* canDoTagsEdit: every tag field the delta touches is covered by a permission
\* naming it or by the wildcard; a delta that touches nothing is permitted.
canDoTagsEdit(d, held) ==
    \A f \in TagFields :
        (d.added[f] # {} \/ d.removed[f] # {})
            => (PermissionFor[f] \in held \/ WildcardPermission \in held)

\* updatePostTags, when it succeeds: the delta applied to the stored row.
updatePostTags(row, d) ==
    PostRow([f \in TagFields |-> (postTagsOf(row)[f] \ d.removed[f]) \cup d.added[f]])

Respond(r, status) ==
    /\ response' = [response EXCEPT ![r] = status]
    /\ pc' = [pc EXCEPT ![r] = "done"]

\* The handler up to its first await: the login check, then the permissions query.
EditStart(r) ==
    /\ pc[r] = "start"
    /\ IF ~currentUser[r]
       THEN Respond(r, Unauthorized)
       ELSE /\ pc' = [pc EXCEPT ![r] = "awaitPermissions"]
            /\ UNCHANGED response
    /\ UNCHANGED <<boardVars, deltaVars, storedPost, currentUser, body, permissions,
                   postDetails, tagsDelta, threw, updateCalls>>

\* Mutation: the check of an empty permissions list is missing.
EditGotPermissionsNoEmptyCheck(r) ==
    /\ pc[r] = "awaitPermissions"
    /\ IF permissions[r].kind = "null"
       THEN Respond(r, InternalServerError)
       ELSE /\ pc' = [pc EXCEPT ![r] = "awaitPost"]
            /\ UNCHANGED response
    /\ UNCHANGED <<boardVars, deltaVars, storedPost, currentUser, body, permissions,
                   postDetails, tagsDelta, threw, updateCalls>>

\* The permissions query resolves: 500 on null, 401 on an empty list, else the
\* post is queried.
EditGotPermissions(r) ==
    /\ pc[r] = "awaitPermissions"
    /\ IF permissions[r].kind = "null"
       THEN Respond(r, InternalServerError)
       ELSE IF Cardinality(permissions[r].items) = 0
       THEN Respond(r, Unauthorized)
       ELSE /\ pc' = [pc EXCEPT ![r] = "awaitPost"]
            /\ UNCHANGED response
    /\ UNCHANGED <<boardVars, deltaVars, storedPost, currentUser, body, permissions,
                   postDetails, tagsDelta, threw, updateCalls>>

\* Mutation: the return after the 401 of a denied edit is missing.
EditGotPostDetailsNoReturn(r) ==
    /\ pc[r] = "awaitPost"
    /\ postDetails' = [postDetails EXCEPT ![r] = getPostFromStringId]
    /\ IF postDetails'[r].kind = "missing"
       THEN /\ threw' = [threw EXCEPT ![r] = TRUE]
            /\ pc' = [pc EXCEPT ![r] = "done"]
            /\ UNCHANGED <<tagsDelta, response, updateCalls>>
       ELSE /\ tagsDelta' = [tagsDelta EXCEPT
                                ![r] = getTagsDelta(postTagsOf(postDetails'[r]), body[r])]
            /\ response' = [response EXCEPT ![r] =
                    IF canDoTagsEdit(tagsDelta'[r], permissions[r].items)
                    THEN response[r] ELSE Unauthorized]
            /\ updateCalls' = [updateCalls EXCEPT ![r] = @ + 1]
            /\ pc' = [pc EXCEPT ![r] = "awaitUpdate"]
            /\ UNCHANGED threw
    /\ UNCHANGED <<boardVars, deltaVars, storedPost, currentUser, body, permissions>>

\* Mutation: the post is fetched only while no other request stands between its
\* own fetch and its persistence, as if the handler held a lock on the post.
EditGotPostDetailsSerialized(r) ==
    /\ pc[r] = "awaitPost"
    /\ \A other \in Requests \ {r} : pc[other] # "awaitUpdate"
    /\ postDetails' = [postDetails EXCEPT ![r] = getPostFromStringId]
    /\ IF postDetails'[r].kind = "missing"
       THEN /\ threw' = [threw EXCEPT ![r] = TRUE]
            /\ pc' = [pc EXCEPT ![r] = "done"]
            /\ UNCHANGED <<tagsDelta, response, updateCalls>>
       ELSE /\ tagsDelta' = [tagsDelta EXCEPT
                                ![r] = getTagsDelta(postTagsOf(postDetails'[r]), body[r])]
            /\ IF ~canDoTagsEdit(tagsDelta'[r], permissions[r].items)
               THEN /\ Respond(r, Unauthorized)
                    /\ UNCHANGED updateCalls
               ELSE /\ updateCalls' = [updateCalls EXCEPT ![r] = @ + 1]
                    /\ pc' = [pc EXCEPT ![r] = "awaitUpdate"]
                    /\ UNCHANGED response
            /\ UNCHANGED threw
    /\ UNCHANGED <<boardVars, deltaVars, storedPost, currentUser, body, permissions>>

\* The post query resolves: reading a column of a missing row throws; else the
\* tags delta is computed and checked against the permissions, 401 on denial,
\* else updatePostTags is called.
EditGotPostDetails(r) ==
    /\ pc[r] = "awaitPost"
    /\ postDetails' = [postDetails EXCEPT ![r] = getPostFromStringId]
    /\ IF postDetails'[r].kind = "missing"
       THEN /\ threw' = [threw EXCEPT ![r] = TRUE]
            /\ pc' = [pc EXCEPT ![r] = "done"]
            /\ UNCHANGED <<tagsDelta, response, updateCalls>>
       ELSE /\ tagsDelta' = [tagsDelta EXCEPT
                                ![r] = getTagsDelta(postTagsOf(postDetails'[r]), body[r])]
            /\ IF ~canDoTagsEdit(tagsDelta'[r], permissions[r].items)
               THEN /\ Respond(r, Unauthorized)
                    /\ UNCHANGED updateCalls
               ELSE /\ updateCalls' = [updateCalls EXCEPT ![r] = @ + 1]
                    /\ pc' = [pc EXCEPT ![r] = "awaitUpdate"]
                    /\ UNCHANGED response
            /\ UNCHANGED threw
    /\ UNCHANGED <<boardVars, deltaVars, storedPost, currentUser, body, permissions>>

\* updatePostTags resolves: with the updated row (220) or with nothing (500).
EditGotUpdatedDetails(r) ==
    /\ pc[r] = "awaitUpdate"
    /\ \E succeeds \in BOOLEAN :
        IF succeeds /\ storedPost.kind = "post"
        THEN /\ storedPost' = updatePostTags(storedPost, tagsDelta[r])
             /\ Respond(r, EditSuccess)
        ELSE /\ UNCHANGED storedPost
             /\ Respond(r, InternalServerError)
    /\ UNCHANGED <<boardVars, deltaVars, currentUser, body, permissions, postDetails,
                   tagsDelta, threw, updateCalls>>

\* One edit request, on every stored post, body, login state and permissions.
InitEdit ==
    /\ IdleBoard
    /\ oldMetadata = DefaultSettings
    /\ newMetadata = DefaultSettings
    /\ delta = NotCalled
    /\ storedPost \in StoredPosts
    /\ pc = [r \in Requests |-> IF r = "r1" THEN "start" ELSE "unused"]
    /\ \E user \in BOOLEAN, tags \in TagSets, perms \in PermissionResults :
        /\ currentUser = [r \in Requests |-> r = "r1" /\ user]
        /\ body = [r \in Requests |-> IF r = "r1" THEN tags ELSE [f \in TagFields |-> {}]]
        /\ permissions = [r \in Requests |-> IF r = "r1" THEN perms ELSE [kind |-> "null"]]
    /\ postDetails = [r \in Requests |-> [kind |-> "unfetched"]]
    /\ tagsDelta = [r \in Requests |-> [kind |-> "none"]]
    /\ response = [r \in Requests |-> 0]
    /\ threw = [r \in Requests |-> FALSE]
    /\ updateCalls = [r \in Requests |-> 0]

NextEdit ==
    \E r \in Requests :
        \/ EditStart(r)
        \/ EditGotPermissions(r)
        \/ EditGotPostDetails(r)
        \/ EditGotUpdatedDetails(r)

SpecEdit == InitEdit /\ [][NextEdit]_vars

\* Two edit requests for the same post, both logged in, each with a list of
\* permissions that is not empty.
RacePermissions ==
    {[kind |-> "list", items |-> {WildcardPermission}],
     [kind |-> "list", items |-> {"edit:whisperTags"}]}

InitRace ==
    /\ IdleBoard
    /\ oldMetadata = DefaultSettings
    /\ newMetadata = DefaultSettings
    /\ delta = NotCalled
    /\ storedPost \in StoredPosts
    /\ pc = [r \in Requests |-> "start"]
    /\ currentUser = [r \in Requests |-> TRUE]
    /\ body \in [Requests -> TagSets]
    /\ permissions \in [Requests -> RacePermissions]
    /\ postDetails = [r \in Requests |-> [kind |-> "unfetched"]]
    /\ tagsDelta = [r \in Requests |-> [kind |-> "none"]]
    /\ response = [r \in Requests |-> 0]
    /\ threw = [r \in Requests |-> FALSE]
    /\ updateCalls = [r \in Requests |-> 0]

SpecRace == InitRace /\ [][NextEdit]_vars

\* Two calls for the same board, on every cache content and stored row.
InitBoard ==
    /\ oldMetadata = DefaultSettings
    /\ newMetadata = DefaultSettings
    /\ delta = NotCalled
    /\ storedPost = NoPost
    /\ IdleRequests
    /\ cacheStore \in [BoardIds -> CacheEntries]
    /\ boardRow \in [BoardIds -> BoardRows]
    /\ calls \in [Calls -> {NewCall(b, f, access) :
                                b \in BoardIds, f \in FirebaseIds, access \in BOOLEAN}]

NextBoard ==
    \E c \in Calls :
        \/ BoardStart(c)
        \/ BoardGotCached(c)
        \/ BoardGotBoard(c)

SpecBoard == InitBoard /\ [][NextBoard]_vars

(***************************************************************************)
(* Calls of getMetadataDelta on every pair of inputs.                      *)
(***************************************************************************)
InitDelta ==
    /\ IdleBoard
    /\ \E pair \in MetadataPairs :
          /\ oldMetadata = pair[1]
          /\ newMetadata = pair[2]
    /\ delta = NotCalled
    /\ storedPost = NoPost
    /\ IdleRequests

CallGetMetadataDelta ==
    /\ delta = NotCalled
    /\ delta' = getMetadataDelta(oldMetadata, newMetadata)
    /\ UNCHANGED <<oldMetadata, newMetadata, editVars, boardVars>>

NextDelta == CallGetMetadataDelta

SpecDelta == InitDelta /\ [][NextDelta]_vars

(***************************************************************************)
(* Properties of getMetadataDelta, read off the inputs and the outcome.    *)
(***************************************************************************)
Returned == delta.kind = "returned"

\* The sections of a metadata's descriptions with the given discriminant, in order.
SectionsOfType(metadata, type) ==
    IF "descriptions" \in DOMAIN metadata
    THEN SelectSeq(metadata.descriptions, LAMBDA d : d.type = type)
    ELSE <<>>

IdsOf(sections) == {sections[i].id : i \in DOMAIN sections}

\* The part of the returned delta for a kind of section.
DeltaPart(type) ==
    IF type = "text" THEN delta.value.texts ELSE delta.value.categoryFilters

ScalarFields == {"accentColor", "tagline"}

\* The value of a scalar field in an input whose settings object is present.
ScalarOf(metadata, field) ==
    IF field = "accentColor"
    THEN Get(metadata.settings, "accentColor")
    ELSE Get(metadata, "tagline")

\* Equality of two strings up to the case of their letters, letter by letter.
CasePairs == {{"B", "b"}, {"O", "o"}, {"D", "d"}, {"L", "l"}}

SameIgnoringCase(a, b) ==
    /\ Len(a) = Len(b)
    /\ \A i \in 1..Len(a) : a[i] = b[i] \/ {a[i], b[i]} \in CasePairs

HasMatchIn(category, categories) ==
    \E k \in DOMAIN categories : SameIgnoringCase(category, categories[k])

\* The section of old that find() pairs with a new filter: the first with its id.
FirstWithId(sections, id) ==
    sections[CHOOSE j \in DOMAIN sections :
                /\ sections[j].id = id
                /\ \A k \in 1..(j - 1) : sections[k].id # id]

OldFilters == SectionsOfType(oldMetadata, "category_filter")
NewFilters == SectionsOfType(newMetadata, "category_filter")

\* C1 as stated: in every returned delta, a scalar field (tagline, accentColor)
\* is a key of the delta only if its old and new values differ, and when they
\* are equal the delta has no key for the field at all.
C1_ScalarKeyAbsentWhenEqual ==
    Returned =>
        \A f \in ScalarFields :
            /\ f \in DOMAIN delta.value
                => ScalarOf(oldMetadata, f) # ScalarOf(newMetadata, f)
            /\ ScalarOf(oldMetadata, f) = ScalarOf(newMetadata, f)
                => f \notin DOMAIN delta.value

\* C1 amended: every returned delta has the keys tagline and accentColor; the
\* value of such a key is the new value only if the old and new values differ,
\* and it is undefined when the two values are equal.
C1_ScalarUndefinedWhenEqual ==
    Returned =>
        \A f \in ScalarFields :
            /\ f \in DOMAIN delta.value
            /\ delta.value[f] # Undefined
                => /\ ScalarOf(oldMetadata, f) # ScalarOf(newMetadata, f)
                   /\ delta.value[f] = ScalarOf(newMetadata, f)
            /\ ScalarOf(oldMetadata, f) = ScalarOf(newMetadata, f)
                => delta.value[f] = Undefined

\* Old and new accentColor are both "#ff5252" and the tagline has changed.
C1_Witness ==
    /\ Returned
    /\ ScalarOf(oldMetadata, "accentColor") = "#ff5252"
    /\ ScalarOf(newMetadata, "accentColor") = "#ff5252"
    /\ delta.value.accentColor = Undefined
    /\ ScalarOf(oldMetadata, "tagline") = "pls b nice"
    /\ delta.value.tagline = "Blood! Blood! Blood!"

\* C2: for the text sections and for the category-filter sections alike, the
\* ids of deleted are exactly the ids of old that new lacks, each deleted item
\* has the key id only, and newAndUpdated is new's items in new's order, each
\* with updated = (its id is an id of old).
C2_DeletedAndNewAndUpdated ==
    Returned =>
        \A type \in {"text", "category_filter"} :
            LET old == SectionsOfType(oldMetadata, type)
                new == SectionsOfType(newMetadata, type)
                part == DeltaPart(type)
            IN  /\ IdsOf(part.deleted) = IdsOf(old) \ IdsOf(new)
                /\ \A i \in DOMAIN part.deleted : DOMAIN part.deleted[i] = {"id"}
                /\ Len(part.newAndUpdated) = Len(new)
                /\ \A i \in 1..Len(new) :
                    /\ \A k \in (DOMAIN new[i]) \ {"categories"} :
                            part.newAndUpdated[i][k] = new[i][k]
                    /\ part.newAndUpdated[i].updated = (new[i].id \in IdsOf(old))

\* A text was deleted, a text was updated and a category filter is new.
C2_Witness ==
    /\ Returned
    /\ Len(delta.value.texts.deleted) > 0
    /\ \E i \in DOMAIN delta.value.texts.newAndUpdated :
            delta.value.texts.newAndUpdated[i].updated
    /\ \E i \in DOMAIN delta.value.categoryFilters.newAndUpdated :
            ~delta.value.categoryFilters.newAndUpdated[i].updated

\* C3: for a category filter of new whose id is an id of a category filter of
\* old, the nested delta's deleted is the old filter's categories without a
\* case-insensitive match among the new filter's, and its new is the new
\* filter's categories without a case-insensitive match among the old
\* filter's, each category as it was written.
C3_NestedDeltaIgnoresCase ==
    Returned =>
        \A i \in DOMAIN NewFilters :
            NewFilters[i].id \in IdsOf(OldFilters) =>
                LET oldFilter == FirstWithId(OldFilters, NewFilters[i].id)
                    nested == delta.value.categoryFilters.newAndUpdated[i].categories
                IN  /\ nested.deleted =
                            SelectSeq(oldFilter.categories,
                                LAMBDA c : ~HasMatchIn(c, NewFilters[i].categories))
                    /\ nested.new =
                            SelectSeq(NewFilters[i].categories,
                                LAMBDA c : ~HasMatchIn(c, oldFilter.categories))

\* Old categories "Blood", new categories "blood": neither deleted nor new.
C3_Witness ==
    /\ Returned
    /\ Len(OldFilters) = 1 /\ Len(NewFilters) = 1
    /\ OldFilters[1].id = NewFilters[1].id
    /\ OldFilters[1].categories = <<CatBlood>>
    /\ NewFilters[1].categories = <<CatBloodLower>>
    /\ delta.value.categoryFilters.newAndUpdated[1].categories
            = [deleted |-> <<>>, new |-> <<>>]

\* C4: a category filter of new whose id is the id of no category filter of
\* old is reported with updated = false, nothing deleted, and all of its
\* categories, in order, as new.
C4_UnmatchedFilterIsAllNew ==
    Returned =>
        \A i \in DOMAIN NewFilters :
            NewFilters[i].id \notin IdsOf(OldFilters) =>
                LET item == delta.value.categoryFilters.newAndUpdated[i]
                IN  /\ item.updated = FALSE
                    /\ item.categories.deleted = <<>>
                    /\ item.categories.new = NewFilters[i].categories

\* Old has a filter with another id; the new filter has two categories.
C4_Witness ==
    /\ Returned
    /\ Len(OldFilters) = 1 /\ Len(NewFilters) = 1
    /\ OldFilters[1].id # NewFilters[1].id
    /\ NewFilters[1].categories = <<CatOdd, CatBlood>>
    /\ delta.value.categoryFilters.newAndUpdated[1].categories.new
            = <<CatOdd, CatBlood>>
    /\ ~delta.value.categoryFilters.newAndUpdated[1].updated

\* C5: in every nested delta, no category is both in deleted and in new.
C5_DeletedAndNewDisjoint ==
    Returned =>
        \A i \in DOMAIN delta.value.categoryFilters.newAndUpdated :
            LET nested == delta.value.categoryFilters.newAndUpdated[i].categories
            IN  Range(nested.deleted) \cap Range(nested.new) = {}

\* A filter present on both sides that loses a category and gains another.
C5_Witness ==
    /\ Returned
    /\ \E i \in DOMAIN delta.value.categoryFilters.newAndUpdated :
        LET item == delta.value.categoryFilters.newAndUpdated[i]
        IN  /\ item.updated
            /\ Len(item.categories.deleted) > 0
            /\ Len(item.categories.new) > 0

\* C6: the delta of a metadata against itself has nothing deleted, every
\* item updated, every nested delta empty and no scalar change.
C6_SelfDeltaIsNoOp ==
    (Returned /\ oldMetadata = newMetadata) =>
        /\ delta.value.texts.deleted = <<>>
        /\ delta.value.categoryFilters.deleted = <<>>
        /\ \A i \in DOMAIN delta.value.texts.newAndUpdated :
                delta.value.texts.newAndUpdated[i].updated
        /\ \A i \in DOMAIN delta.value.categoryFilters.newAndUpdated :
            LET item == delta.value.categoryFilters.newAndUpdated[i]
            IN  /\ item.updated
                /\ item.categories = [deleted |-> <<>>, new |-> <<>>]
        /\ delta.value.accentColor = Undefined
        /\ delta.value.tagline = Undefined

\* A metadata with a text and a category filter with a category, against itself.
C6_Witness ==
    /\ Returned
    /\ oldMetadata = newMetadata
    /\ Len(delta.value.texts.newAndUpdated) > 0
    /\ \E i \in DOMAIN NewFilters : Len(NewFilters[i].categories) > 0

\* C7 as stated: every call returns a delta, a missing descriptions array
\* counting as empty, and no section of another type is in either collection.
C7_NoErrorOnLooseInput ==
    delta # NotCalled =>
        /\ Returned
        /\ \A type \in {"text", "category_filter"} :
            /\ "descriptions" \notin DOMAIN oldMetadata
                    => DeltaPart(type).deleted = <<>>
            /\ "descriptions" \notin DOMAIN newMetadata
                    => DeltaPart(type).newAndUpdated = <<>>
            /\ \A i \in DOMAIN DeltaPart(type).newAndUpdated :
                    DeltaPart(type).newAndUpdated[i].type = type

(***************************************************************************)
(* Properties of the post edit handler.                                    *)
(***************************************************************************)
PolicyDenied(r) ==
    /\ tagsDelta[r].kind = "delta"
    /\ ~canDoTagsEdit(tagsDelta[r], permissions[r].items)

EmptyTagsDelta(r) ==
    /\ tagsDelta[r].kind = "delta"
    /\ \A f \in TagFields : tagsDelta[r].added[f] = {} /\ tagsDelta[r].removed[f] = {}

\* C8: whenever canDoTagsEdit denies a request's tags delta, updatePostTags is
\* not invoked for the request and the request has ended with the 401 response.
C8_DeniedEditIsNotPersisted ==
    \A r \in Requests :
        PolicyDenied(r) =>
            /\ updateCalls[r] = 0
            /\ pc[r] = "done"
            /\ response[r] = Unauthorized

\* A caller holding a permission for another tag field is denied.
C8_Witness ==
    \E r \in Requests :
        /\ PolicyDenied(r)
        /\ permissions[r].items = {"edit:whisperTags"}
        /\ tagsDelta[r].added["categoryTags"] # {}
        /\ response[r] = Unauthorized

\* C9 as stated: when getPostFromStringId returns nothing, the request ends
\* with a not-found response, nothing is thrown, no delta is computed and
\* updatePostTags is not called.
C9_MissingPostIsNotFound ==
    \A r \in Requests :
        postDetails[r].kind = "missing" =>
            /\ ~threw[r]
            /\ response[r] = 404
            /\ tagsDelta[r].kind = "none"
            /\ updateCalls[r] = 0

\* C10 as stated: a logged-in caller whose edit changes no tag of the stored
\* post is never rejected, whatever list of permissions the caller holds, the
\* empty list included.
C10_NoOpEditNeverRejected ==
    \A r \in Requests :
        ( /\ pc[r] = "done"
          /\ currentUser[r]
          /\ permissions[r].kind = "list"
          /\ storedPost.kind = "post"
          /\ body[r] = postTagsOf(storedPost) )
            => response[r] # Unauthorized

\* C10 amended: a tags delta that is entirely empty is never denied, whatever
\* non-empty list of permissions the caller holds: updatePostTags is invoked and
\* the request ends with the success response, or with 500 when updatePostTags
\* returns nothing; a logged-in caller with the empty list of permissions is
\* answered 401 before any delta is computed.
C10_NoOpEditAuthorizedUnlessNoPermissions ==
    \A r \in Requests :
        /\ EmptyTagsDelta(r) =>
            /\ updateCalls[r] = 1
            /\ response[r] # Unauthorized
            /\ pc[r] = "done" => response[r] \in {EditSuccess, InternalServerError}
        /\ ( /\ pc[r] = "done"
             /\ currentUser[r]
             /\ permissions[r].kind = "list"
             /\ permissions[r].items = {} )
            => /\ response[r] = Unauthorized
               /\ tagsDelta[r].kind = "none"
               /\ updateCalls[r] = 0

\* A no-op edit by a caller whose only permission is for whisper tags succeeds.
C10_Witness ==
    \E r \in Requests :
        /\ EmptyTagsDelta(r)
        /\ permissions[r].items = {"edit:whisperTags"}
        /\ body[r].categoryTags # {}
        /\ pc[r] = "done"
        /\ response[r] = EditSuccess

(***************************************************************************)
(* Properties of two edit requests for the same post.                      *)
(***************************************************************************)
NonEmptyTagsDelta(r) ==
    /\ tagsDelta[r].kind = "delta"
    /\ \E f \in TagFields : tagsDelta[r].added[f] # {} \/ tagsDelta[r].removed[f] # {}

\* C12: the handler takes no lock and does not serialize two requests for the
\* same post: while one request stands between its fetch and its persistence,
\* the other's fetch can still resolve; and the delta a request persists is the
\* one it computed from the tags it fetched, whatever storage holds by then.
C12_EditsAreNotSerialized ==
    \A r \in Requests :
        /\ \A other \in Requests \ {r} :
            (pc[r] = "awaitPost" /\ pc[other] = "awaitUpdate")
                => ENABLED EditGotPostDetails(r)
        /\ updateCalls[r] > 0
            => /\ updateCalls[r] = 1
               /\ tagsDelta[r] = getTagsDelta(postTagsOf(postDetails[r]), body[r])

\* Both requests fetched the same row, each computed a delta that changes it,
\* and both deltas were persisted: the second against a row storage no longer
\* held.
C12_Witness ==
    /\ \A r \in Requests :
        /\ pc[r] = "done"
        /\ response[r] = EditSuccess
        /\ updateCalls[r] = 1
        /\ NonEmptyTagsDelta(r)
    /\ postDetails["r1"] = postDetails["r2"]
    /\ storedPost # postDetails["r1"]

(***************************************************************************)
(* Properties of getBoardMetadataByExternalId.                             *)
(***************************************************************************)
\* The call carries an authenticated identity: a firebaseId that is a
\* non-empty string.
Authenticated(c) == calls[c].firebaseId \notin {Undefined, ""}

\* C11: a call with an authenticated identity neither reads nor writes the
\* cache, whatever the cache holds, and what it returns is rendered from the
\* row its own storage query returned (null when there is no such board).
C11_AuthenticatedCallBypassesCache ==
    \A c \in Calls :
        Authenticated(c) =>
            /\ calls[c].cacheReads = 0
            /\ calls[c].cacheWrites = 0
            /\ calls[c].pc # "awaitCache"
            /\ calls[c].pc = "done" =>
                IF calls[c].board.kind = "missing"
                THEN calls[c].result = [kind |-> "null"]
                ELSE /\ calls[c].result.kind = "metadata"
                     /\ calls[c].result.value.tagline = calls[c].board.tagline
                     /\ calls[c].result.value.muted = "false"
                     /\ calls[c].result.value.accessible =
                            (IF calls[c].hasBoardAccess THEN "true" ELSE "false")

\* An authenticated call returned the stored tagline while the cache held an
\* entry rendered from another tagline, and left that entry as it was.
C11_Witness ==
    \E c \in Calls, b \in BoardIds :
        /\ Authenticated(c)
        /\ calls[c].pc = "done"
        /\ calls[c].result.kind = "metadata"
        /\ cacheStore[b].kind = "hit"
        /\ JSONparse(cacheStore[b].json).tagline # calls[c].result.value.tagline
        /\ calls[c].result.value.tagline = boardRow[b].tagline

====
